---- MODULE Spec2Model ----
(***************************************************************************)
(* Job_webscraper: the three board connectors (Indeed, LinkedIn, Naukri),  *)
(* the employer connectors of company_careers.py and run_scraper of        *)
(* server.py, as state machines.                                           *)
(*                                                                         *)
(* A source is a listing (a flat sequence of raw records, each reduced to  *)
(* its source-native key, NoKey when the record carries none) that the     *)
(* server cuts into pages of pageSize records.  Every page request may     *)
(* succeed, answer with a non-success status, or raise in the transport.   *)
(***************************************************************************)
EXTENDS Integers, Sequences, FiniteSets, TLC

\* ------------------------------------------------------------- bounds
MaxId == 2
MaxLen == 2
MaxPageSize == 2
MaxWanted == 3
MaxOffset == 1
MaxRuns == 2
MaxFeed == 2
MaxFaults == 1
MaxTriggers == 3
UniformPage == 3
UniformWanted == 5
UniformLen == UniformWanted + UniformPage

\* ------------------------------------------------- program constants
\* LinkedIn.scrape: start < 1000
MaxStart == 1000
\* Naukri.scrape: page <= 50
MaxPage == 50
\* run_scraper: scrape_all_company_careers(..., limit=10)
CareersLimit == 10
\* LinkedIn.scrape: offset // 10 * 10
OffsetStep == 10
\* LinkedIn.jobs_per_page
jobs_per_page == 25
\* Naukri._get_compensation: min_sal *= 100000, min_sal *= 10000000
Lakh == 100000
Crore == 10000000

NoKey == 0
None == -1
Missing == -2

Sites == {"indeed", "linkedin", "naukri"}
\* scrape_jobs(site_name=["indeed", "linkedin", "naukri"], ...)
site_name == <<"indeed", "linkedin", "naukri">>
\* scrape_all_company_careers: scrapers, in the order they are submitted
scrapers == <<"Amazon", "GitLab", "Pinterest", "PhonePe", "Razorpay", "Flipkart">>
Companies == {scrapers[i] : i \in 1..6}
Outcomes == {"ok", "status", "exc"}
\* the POST /scrape requests and scheduled_scrape firings
Triggers == 1..MaxTriggers

VARIABLES
    site,            \* harness: the connector under test
    listing,         \* the source's records, in source order
    pageSize,        \* records the server puts on one page
    endless,         \* the source never runs dry: it serves the listing cyclically
    lastCursor,      \* Indeed: how the last page omits nextCursor
    results_wanted,  \* ScraperInput.results_wanted
    offset,          \* ScraperInput.offset
    seen_urls,       \* Indeed.seen_urls (instance field)
    cursor,          \* Indeed.scrape local
    start,           \* LinkedIn.scrape local
    page,            \* Naukri.scrape local
    seen_ids,        \* LinkedIn / Naukri scrape local, by site
    job_list,        \* scrape local, by site
    pc,              \* by site: idle, loop, done, raised
    result,          \* by site: JobResponse.jobs of the last return
    reqs,            \* by site: continuation tokens requested in this run
    events,          \* by site: fetch / sleep events of this run
    added,           \* by site: records each request of this run added
    outcomes,        \* by site: outcome of each request of this run
    past,            \* by site: results of the completed scrape() calls
    faulted,         \* by site: a request of some run did not succeed
    faultsLeft,      \* requests that may still fail in this run
    search_term,     \* run_scraper: search_term, as lower-case words
    feed,            \* the postings every employer API serves
    limit,           \* the limit the employer scrapers are called with
    emp_outcome,     \* by company: outcome of its request, or none
    emp_jobs,        \* by company: the list its scraper returned
    raisedAt,        \* run_scraper: the call an exception came out of
    is_running,      \* scraping_status["is_running"]
    jobs_found,      \* scraping_status["jobs_found"]
    last_run,        \* scraping_status["last_run"]: runs that stamped it
    runPc,           \* run_scraper: idle, boards, careers, insert, done, raised
    jobs_data,       \* run_scraper local
    company_jobs,    \* run_scraper local
    transformed_jobs, \* run_scraper local
    fanPc,           \* scrape_all_company_careers: idle, merging, returned
    futures,         \* by company: submitted, returned, raised, merged
    all_jobs,        \* scrape_all_company_careers: the accumulator
    merged,          \* the companies in the order as_completed yielded them
    runs,            \* by trigger: none, rejected, pending, running, done, failed
    call,            \* the field extractor or transform that was applied, or none
    arg,             \* its argument
    ret              \* the value it returned

inputs == <<site, listing, pageSize, endless, lastCursor, results_wanted,
            offset, search_term, feed, limit>>
locals == <<seen_urls, cursor, start, page, seen_ids, job_list, pc, result>>
history == <<reqs, events, added, outcomes, past, faulted>>
runvars == <<is_running, jobs_found, last_run, runPc, jobs_data, company_jobs,
             transformed_jobs, raisedAt>>
empvars == <<emp_outcome, emp_jobs>>
fanout == <<fanPc, futures, all_jobs, merged>>
service == <<runs>>
extractors == <<call, arg, ret>>
vars == <<inputs, locals, history, faultsLeft, runvars, empvars, fanout, service,
         extractors>>

\* ------------------------------------------------------------ helpers
Min(a, b) == IF a < b THEN a ELSE b

\* Python s[a:b] for 0 <= a, b
Slice(s, a, b) == SubSeq(s, a + 1, Min(b, Len(s)))

CeilDiv(a, b) == (a + b - 1) \div b

\* sequences over S of length at most n
SeqsUpTo(S, n) == UNION {[1..k -> S] : k \in 0..n}

\* the records the server holds at the absolute positions s .. s + n - 1
Served(s, n) ==
    IF endless /\ listing # <<>>
    THEN [i \in 1..n |-> listing[((s + i - 1) % Len(listing)) + 1]]
    ELSE Slice(listing, s, s + n)

\* the server's page number k (1-based) of the listing
PageNo(k) == Served((k - 1) * pageSize, pageSize)

\* the server's page of cards beginning at absolute offset s
PageAt(s) == Served(s, pageSize)

\* the title the source gives the record with this key
SourceTitle(key) ==
    IF key % 2 = 1 THEN <<"Software", "Engineer">> ELSE <<"Data">>

\* JobPost(id=f"{prefix}-{key}"): the canonical id is the prefixed key
JobPost(prefix, key) ==
    [id |-> <<prefix, key>>, job_url |-> <<prefix, key>>, title |-> SourceTitle(key)]

\* ---------------------------------------------------- scrape() exits
\* return JobResponse(jobs=jobs)
Return(s, jobs) ==
    /\ pc' = [pc EXCEPT ![s] = "done"]
    /\ result' = [result EXCEPT ![s] = jobs]
    /\ past' = [past EXCEPT ![s] = Append(@, [raised |-> FALSE, jobs |-> jobs])]

\* an exception leaves scrape()
Raise(s) ==
    /\ pc' = [pc EXCEPT ![s] = "raised"]
    /\ result' = [result EXCEPT ![s] = <<>>]
    /\ past' = [past EXCEPT ![s] = Append(@, [raised |-> TRUE, jobs |-> <<>>])]

\* the bookkeeping of one page request: token, outcome, new records
Logged(s, token, o, new, slept) ==
    /\ reqs' = [reqs EXCEPT ![s] = Append(@, token)]
    /\ events' = [events EXCEPT ![s] =
                    IF slept THEN @ \o <<"fetch", "sleep">> ELSE Append(@, "fetch")]
    /\ added' = [added EXCEPT ![s] = Append(@, new)]
    /\ outcomes' = [outcomes EXCEPT ![s] = Append(@, o)]
    /\ faulted' = [faulted EXCEPT ![s] = @ \/ o # "ok"]
    /\ faultsLeft' = IF o = "ok" THEN faultsLeft ELSE faultsLeft - 1

\* the bookkeeping of a fresh scrape() call
Fresh(s) ==
    /\ reqs' = [reqs EXCEPT ![s] = <<>>]
    /\ events' = [events EXCEPT ![s] = <<>>]
    /\ added' = [added EXCEPT ![s] = <<>>]
    /\ outcomes' = [outcomes EXCEPT ![s] = <<>>]
    /\ pc' = [pc EXCEPT ![s] = "loop"]
    /\ job_list' = [job_list EXCEPT ![s] = <<>>]
    /\ faultsLeft' = 1

\* the outcomes the next request may have
Possible == IF faultsLeft > 0 THEN Outcomes ELSE {"ok"}

\* the harness calls scrape() on the instance, at most MaxRuns times
Callable(s) ==
    /\ s = site
    /\ pc[s] # "loop"
    /\ Len(past[s]) < MaxRuns

\* ------------------------------------------------------------- Indeed
\* variant: the loop goes on while the quota is met exactly
IndeedContinue_Inclusive(seen, wanted, off) == Cardinality(seen) <= wanted + off

\* while len(self.seen_urls) < results_wanted + offset
IndeedContinue(seen, wanted, off) == Cardinality(seen) < wanted + off

\* if job_url in self.seen_urls: return None
IndeedIsSeen(key, seen) == key \in seen

\* cursor=f'cursor: "{cursor}"' if cursor else "": no cursor asks for page 1
IndeedPageIndex(c) == IF c = None THEN 1 ELSE c

\* data["data"]["jobSearch"]["pageInfo"]["nextCursor"] of page i: the
\* next page's cursor, and on the last page null or no key at all
IndeedNextCursor(i) ==
    IF i * pageSize < Len(listing) THEN i + 1
    ELSE IF lastCursor = "missing" THEN Missing ELSE None

\* for job in jobs: processed_job = self._process_job(job["job"]) ...
\* job["key"] of a record without key raises KeyError
RECURSIVE IndeedProcessJobs(_, _, _)
IndeedProcessJobs(keys, seen, acc) ==
    IF keys = <<>> THEN [raised |-> FALSE, seen |-> seen, jobs |-> acc]
    ELSE IF Head(keys) = NoKey THEN [raised |-> TRUE, seen |-> seen, jobs |-> acc]
    ELSE IF IndeedIsSeen(Head(keys), seen)
         THEN IndeedProcessJobs(Tail(keys), seen, acc)
         ELSE IndeedProcessJobs(Tail(keys), seen \cup {Head(keys)},
                                Append(acc, JobPost("in", Head(keys))))

\* variant: a non-success status raises, as the transport error does
IndeedScrapePageResult_StatusRaises(c, seen, o) ==
    IF o # "ok" THEN [raised |-> TRUE, seen |-> seen, jobs |-> <<>>, cursor |-> None]
    ELSE LET i == IndeedPageIndex(c)
             nxt == IndeedNextCursor(i)
             r == IndeedProcessJobs(PageNo(i), seen, <<>>)
         IN  IF nxt = Missing
             THEN [raised |-> TRUE, seen |-> seen, jobs |-> <<>>, cursor |-> None]
             ELSE [raised |-> r.raised, seen |-> r.seen, jobs |-> r.jobs,
                   cursor |-> nxt]

\* Indeed._scrape_page(cursor) under outcome o of session.post
IndeedScrapePageResult(c, seen, o) ==
    IF o = "exc" THEN [raised |-> TRUE, seen |-> seen, jobs |-> <<>>, cursor |-> None]
    ELSE IF o = "status"
         THEN [raised |-> FALSE, seen |-> seen, jobs |-> <<>>, cursor |-> None]
    ELSE LET i == IndeedPageIndex(c)
             nxt == IndeedNextCursor(i)
             r == IndeedProcessJobs(PageNo(i), seen, <<>>)
         IN  IF nxt = Missing
             THEN [raised |-> TRUE, seen |-> seen, jobs |-> <<>>, cursor |-> None]
             ELSE [raised |-> r.raised, seen |-> r.seen, jobs |-> r.jobs,
                   cursor |-> nxt]

\* job_list[offset : offset + results_wanted]
IndeedResult(jobs, wanted, off) == Slice(jobs, off, off + wanted)

\* Indeed.scrape, up to the loop
IndeedScrape ==
    /\ Callable("indeed")
    /\ Fresh("indeed")
    /\ cursor' = None
    /\ UNCHANGED <<inputs, extractors, runvars, empvars, fanout, service, seen_urls, start, page, seen_ids, result, past, faulted>>

\* Indeed.scrape: the loop condition fails
IndeedLoopExit ==
    /\ pc["indeed"] = "loop"
    /\ ~IndeedContinue(seen_urls, results_wanted, offset)
    /\ Return("indeed", IndeedResult(job_list["indeed"], results_wanted, offset))
    /\ UNCHANGED <<inputs, extractors, runvars, empvars, fanout, service, seen_urls, cursor, start, page, seen_ids, job_list,
                   reqs, events, added, outcomes, faulted, faultsLeft>>

\* Indeed.scrape: one iteration of the loop
IndeedIteration ==
    /\ pc["indeed"] = "loop"
    /\ IndeedContinue(seen_urls, results_wanted, offset)
    /\ \E o \in Possible :
        LET r == IndeedScrapePageResult(cursor, seen_urls, o)
        IN  /\ Logged("indeed", cursor, o, Len(r.jobs), FALSE)
            /\ seen_urls' = r.seen
            /\ IF r.raised
               THEN /\ Raise("indeed")
                    /\ UNCHANGED <<cursor, job_list>>
               ELSE /\ cursor' = r.cursor
                    /\ IF r.jobs = <<>>
                       THEN /\ Return("indeed",
                                  IndeedResult(job_list["indeed"], results_wanted, offset))
                            /\ UNCHANGED job_list
                       ELSE /\ job_list' = [job_list EXCEPT !["indeed"] = @ \o r.jobs]
                            /\ UNCHANGED <<pc, result, past>>
    /\ UNCHANGED <<inputs, extractors, runvars, empvars, fanout, service, start, page, seen_ids>>

\* ----------------------------------------------------------- LinkedIn
\* start = scraper_input.offset // 10 * 10 if scraper_input.offset else 0
LinkedInStart(off) == IF off # 0 THEN (off \div OffsetStep) * OffsetStep ELSE 0

\* variant: the ceiling itself is still requested
LinkedInContinue_PastCeiling(jobs, wanted, st) == Len(jobs) < wanted /\ st <= MaxStart

\* continue_search = lambda: len(job_list) < results_wanted and start < 1000
LinkedInContinue(jobs, wanted, st) == Len(jobs) < wanted /\ st < MaxStart

\* variant: start advances by the records the page added
LinkedInAdvance_ByNew(st, cards, new) == st + new

\* start += len(job_cards)
LinkedInAdvance(st, cards, new) == st + Len(cards)

\* if job_id in seen_ids: continue
LinkedInIsSeen(job_id, seen) == job_id \in seen

\* for job_card in job_cards: ... (a card without link has key NoKey)
RECURSIVE LinkedInProcessCards(_, _, _, _, _)
LinkedInProcessCards(cards, seen, jobs, wanted, st) ==
    IF cards = <<>> THEN [seen |-> seen, jobs |-> jobs]
    ELSE IF Head(cards) = NoKey \/ LinkedInIsSeen(Head(cards), seen)
         THEN LinkedInProcessCards(Tail(cards), seen, jobs, wanted, st)
         ELSE LET jobs2 == Append(jobs, JobPost("li", Head(cards)))
                  seen2 == seen \cup {Head(cards)}
              IN  IF ~LinkedInContinue(jobs2, wanted, st)
                  THEN [seen |-> seen2, jobs |-> jobs2]
                  ELSE LinkedInProcessCards(Tail(cards), seen2, jobs2, wanted, st)

\* variant: the returned list is turned round
LinkedInResult_Reversed(jobs, wanted) ==
    [j \in 1..Len(Slice(jobs, 0, wanted)) |->
       Slice(jobs, 0, wanted)[Len(Slice(jobs, 0, wanted)) + 1 - j]]

\* job_list[: scraper_input.results_wanted]
LinkedInResult(jobs, wanted) == Slice(jobs, 0, wanted)

\* LinkedIn.scrape, up to the loop
LinkedInScrape ==
    /\ Callable("linkedin")
    /\ Fresh("linkedin")
    /\ seen_ids' = [seen_ids EXCEPT !["linkedin"] = {}]
    /\ start' = LinkedInStart(offset)
    /\ UNCHANGED <<inputs, extractors, runvars, empvars, fanout, service, seen_urls, cursor, page, result, past, faulted>>

\* LinkedIn.scrape: the loop condition fails
LinkedInLoopExit ==
    /\ pc["linkedin"] = "loop"
    /\ ~LinkedInContinue(job_list["linkedin"], results_wanted, start)
    /\ Return("linkedin", LinkedInResult(job_list["linkedin"], results_wanted))
    /\ UNCHANGED <<inputs, extractors, runvars, empvars, fanout, service, seen_urls, cursor, start, page, seen_ids, job_list,
                   reqs, events, added, outcomes, faulted, faultsLeft>>

\* LinkedIn.scrape: one iteration of the loop
LinkedInIteration ==
    /\ pc["linkedin"] = "loop"
    /\ LinkedInContinue(job_list["linkedin"], results_wanted, start)
    /\ \E o \in Possible :
        LET job_cards == IF o = "ok" THEN PageAt(start) ELSE <<>>
            r == LinkedInProcessCards(job_cards, seen_ids["linkedin"],
                                      job_list["linkedin"], results_wanted, start)
            new == Len(r.jobs) - Len(job_list["linkedin"])
            again == LinkedInContinue(r.jobs, results_wanted, start)
        IN  IF o # "ok" \/ Len(job_cards) = 0
            THEN /\ Logged("linkedin", start, o, 0, FALSE)
                 /\ Return("linkedin", job_list["linkedin"])
                 /\ UNCHANGED <<start, seen_ids, job_list>>
            ELSE /\ Logged("linkedin", start, o, new, again)
                 /\ seen_ids' = [seen_ids EXCEPT !["linkedin"] = r.seen]
                 /\ job_list' = [job_list EXCEPT !["linkedin"] = r.jobs]
                 /\ start' = IF again THEN LinkedInAdvance(start, job_cards, new)
                                     ELSE start
                 /\ UNCHANGED <<pc, result, past>>
    /\ UNCHANGED <<inputs, extractors, runvars, empvars, fanout, service, seen_urls, cursor, page>>

\* ------------------------------------------------------------- Naukri
\* variant: one page more than the ceiling is attempted
NaukriContinue_PastCeiling(jobs, wanted, pg) == Len(jobs) < wanted /\ pg <= MaxPage + 1

\* variant: the search goes on with the quota met exactly
NaukriContinue_QuotaMet(jobs, wanted, pg) == Len(jobs) <= wanted /\ pg <= MaxPage

\* continue_search = lambda: len(job_list) < results_wanted and page <= 50
NaukriContinue(jobs, wanted, pg) == Len(jobs) < wanted /\ pg <= MaxPage

\* variant: only records without id are skipped
NaukriSkip_IgnoresSeen(job_id, seen) == job_id = NoKey

\* if not job_id or job_id in seen_ids: continue
NaukriSkip(job_id, seen) == job_id = NoKey \/ job_id \in seen

\* for job in job_details: ...
RECURSIVE NaukriProcessJobs(_, _, _, _, _)
NaukriProcessJobs(details, seen, jobs, wanted, pg) ==
    IF details = <<>> THEN [seen |-> seen, jobs |-> jobs]
    ELSE IF NaukriSkip(Head(details), seen)
         THEN NaukriProcessJobs(Tail(details), seen, jobs, wanted, pg)
         ELSE LET jobs2 == Append(jobs, JobPost("nk", Head(details)))
                  seen2 == seen \cup {Head(details)}
              IN  IF ~NaukriContinue(jobs2, wanted, pg)
                  THEN [seen |-> seen2, jobs |-> jobs2]
                  ELSE NaukriProcessJobs(Tail(details), seen2, jobs2, wanted, pg)

\* job_list[:scraper_input.results_wanted]
NaukriResult(jobs, wanted) == Slice(jobs, 0, wanted)

\* Naukri.scrape, up to the loop
NaukriScrape ==
    /\ Callable("naukri")
    /\ Fresh("naukri")
    /\ seen_ids' = [seen_ids EXCEPT !["naukri"] = {}]
    /\ page' = 1
    /\ UNCHANGED <<inputs, extractors, runvars, empvars, fanout, service, seen_urls, cursor, start, result, past, faulted>>

\* Naukri.scrape: the loop condition fails
NaukriLoopExit ==
    /\ pc["naukri"] = "loop"
    /\ ~NaukriContinue(job_list["naukri"], results_wanted, page)
    /\ Return("naukri", NaukriResult(job_list["naukri"], results_wanted))
    /\ UNCHANGED <<inputs, extractors, runvars, empvars, fanout, service, seen_urls, cursor, start, page, seen_ids, job_list,
                   reqs, events, added, outcomes, faulted, faultsLeft>>

\* Naukri.scrape: one iteration of the loop
NaukriIteration ==
    /\ pc["naukri"] = "loop"
    /\ NaukriContinue(job_list["naukri"], results_wanted, page)
    /\ \E o \in Possible :
        LET job_details == IF o = "ok" THEN PageNo(page) ELSE <<>>
            r == NaukriProcessJobs(job_details, seen_ids["naukri"],
                                   job_list["naukri"], results_wanted, page)
            new == Len(r.jobs) - Len(job_list["naukri"])
            again == NaukriContinue(r.jobs, results_wanted, page)
        IN  IF o # "ok"
            THEN /\ Logged("naukri", page, o, 0, FALSE)
                 /\ Return("naukri", job_list["naukri"])
                 /\ UNCHANGED <<page, seen_ids, job_list>>
            ELSE IF job_details = <<>>
            THEN /\ Logged("naukri", page, o, 0, FALSE)
                 /\ Return("naukri", NaukriResult(job_list["naukri"], results_wanted))
                 /\ UNCHANGED <<page, seen_ids, job_list>>
            ELSE /\ Logged("naukri", page, o, new, again)
                 /\ seen_ids' = [seen_ids EXCEPT !["naukri"] = r.seen]
                 /\ job_list' = [job_list EXCEPT !["naukri"] = r.jobs]
                 /\ page' = IF again THEN page + 1 ELSE page
                 /\ UNCHANGED <<pc, result, past>>
    /\ UNCHANGED <<inputs, extractors, runvars, empvars, fanout, service, seen_urls, cursor, start>>

\* -------------------------------------------------- employer scrapers
\* str.lower() of one word
LowerWord(w) ==
    CASE w = "Software" -> "software"
      [] w = "Engineer" -> "engineer"
      [] w = "Data" -> "data"
      [] w = "India" -> "india"
      [] w = "Remote" -> "remote"
      [] w = "Bangalore" -> "bangalore"
      [] w = "Berlin" -> "berlin"
      [] w = "Today" -> "today"
      [] w = "Just" -> "just"
      [] w = "Now" -> "now"
      [] w = "Few" -> "few"
      [] w = "Hours" -> "hours"
      [] w = "Day" -> "day"
      [] w = "Days" -> "days"
      [] w = "Weeks" -> "weeks"
      [] w = "Ago" -> "ago"
      [] w = "Posted" -> "posted"
      [] w = "Pay:" -> "pay:"
      [] w = "From" -> "from"
      [] w = "Up" -> "up"
      [] w = "LPA" -> "lpa"
      [] w = "Lakhs" -> "lakhs"
      [] w = "CTC:" -> "ctc:"
      [] OTHER -> w

\* str.lower() of a text, a sequence of words
Lower(t) == [i \in 1..Len(t) |-> LowerWord(t[i])]

\* a in b, for texts
In(a, b) == \E i \in 0..(Len(b) - Len(a)) : SubSeq(b, i + 1, i + Len(a)) = a

\* the record a scraper appends for posting i of the feed
CompanyJob(c, i) ==
    [title |-> feed[i].title, company_name |-> c, location |-> feed[i].loc,
     apply_url |-> <<c, i>>, salary_range |-> None]

\* for job in ...: if count >= limit: break; if <keep>: jobs.append(...)
RECURSIVE Collect(_, _, _, _, _)
Collect(c, i, keep, lim, jobs) ==
    IF i > Len(feed) \/ Len(jobs) >= lim THEN jobs
    ELSE Collect(c, i + 1, keep, lim,
                 IF i \in keep THEN Append(jobs, CompanyJob(c, i)) ELSE jobs)

\* the postings whose title holds the term
TitleHas(term) == {i \in 1..Len(feed) : In(Lower(term), Lower(feed[i].title))}

\* the postings whose location holds one of the texts
LocHas(texts) ==
    {i \in 1..Len(feed) : \E t \in texts : In(Lower(t), Lower(feed[i].loc))}

\* scrape_amazon_jobs: every posting of the response, unfiltered
scrape_amazon_jobs(term, location, lim, o) ==
    IF o # "ok" THEN <<>>
    ELSE [i \in 1..Len(feed) |-> CompanyJob("Amazon", i)]

scrape_gitlab_jobs(term, location, lim, o) ==
    IF o # "ok" THEN <<>>
    ELSE Collect("GitLab", 1,
                 TitleHas(term) \cap LocHas({location, <<"remote">>, <<"everywhere">>}),
                 lim, <<>>)

scrape_pinterest_jobs(term, location, lim, o) ==
    IF o # "ok" THEN <<>>
    ELSE Collect("Pinterest", 1,
                 TitleHas(term) \cap LocHas({location, <<"remote">>}), lim, <<>>)

scrape_phonepe_jobs(term, location, lim, o) ==
    IF o # "ok" THEN <<>> ELSE Collect("PhonePe", 1, TitleHas(term), lim, <<>>)

scrape_razorpay_jobs(term, location, lim, o) ==
    IF o # "ok" THEN <<>> ELSE Collect("Razorpay", 1, TitleHas(term), lim, <<>>)

scrape_flipkart_jobs(term, location, lim, o) ==
    IF o # "ok" THEN <<>> ELSE Collect("Flipkart", 1, TitleHas(term), lim, <<>>)

\* scrape_all_company_careers: the lambda submitted for company c
Scraper(c, term, location, lim, o) ==
    CASE c = "Amazon" -> scrape_amazon_jobs(term, location, lim, o)
      [] c = "GitLab" -> scrape_gitlab_jobs(<<"software">>, location, lim, o)
      [] c = "Pinterest" -> scrape_pinterest_jobs(<<"software">>, location, lim, o)
      [] c = "PhonePe" -> scrape_phonepe_jobs(<<"engineer">>, location, lim, o)
      [] c = "Razorpay" -> scrape_razorpay_jobs(<<"engineer">>, location, lim, o)
      [] c = "Flipkart" -> scrape_flipkart_jobs(<<"engineer">>, location, lim, o)

\* the harness calls one employer scraper with the query
CallScraper ==
    /\ site \in Companies
    /\ emp_outcome[site] = "none"
    /\ \E o \in Outcomes :
        /\ emp_outcome' = [emp_outcome EXCEPT ![site] = o]
        /\ emp_jobs' = [emp_jobs EXCEPT ![site] =
                          CASE site = "Amazon" ->
                                 scrape_amazon_jobs(search_term, <<"India">>, limit, o)
                            [] site = "GitLab" ->
                                 scrape_gitlab_jobs(search_term, <<"India">>, limit, o)
                            [] site = "Pinterest" ->
                                 scrape_pinterest_jobs(search_term, <<"India">>, limit, o)
                            [] site = "PhonePe" ->
                                 scrape_phonepe_jobs(search_term, <<"India">>, limit, o)
                            [] site = "Razorpay" ->
                                 scrape_razorpay_jobs(search_term, <<"India">>, limit, o)
                            [] site = "Flipkart" ->
                                 scrape_flipkart_jobs(search_term, <<"India">>, limit, o)]
    /\ UNCHANGED <<inputs, extractors, locals, history, faultsLeft, runvars, fanout,
                   service>>

\* --------------------------------------------------------- run_scraper
\* transform_jobspy_to_schema(doc)
transform_jobspy_to_schema(doc) ==
    [apply_url |-> doc.job_url, source |-> doc.site]

\* transform_company_to_schema(job)
transform_company_to_schema(job) ==
    [apply_url |-> job.apply_url, source |-> job.company_name]

\* the concatenation of the sequences q[1], q[2], ...
RECURSIVE Concat(_)
Concat(q) == IF q = <<>> THEN <<>> ELSE Head(q) \o Concat(Tail(q))

\* scrape_jobs: the records of the connectors, each with its site,
\* merged and cut to the quota
scrape_jobs_result(wanted) ==
    Slice(Concat([i \in 1..Len(site_name) |->
                    [k \in 1..Len(result[site_name[i]]) |->
                       [id |-> result[site_name[i]][k].id,
                        job_url |-> result[site_name[i]][k].job_url,
                        site |-> site_name[i]]]]),
          0, wanted)

\* the orders in which the six submitted scrapers may complete
Rotated(k) == [i \in 1..6 |-> scrapers[((i + k - 1) % 6) + 1]]
Reversed(q) == [i \in 1..Len(q) |-> q[Len(q) + 1 - i]]
CompletionOrders == {Rotated(k) : k \in 0..5} \cup {Reversed(Rotated(k)) : k \in 0..5}

\* which requests of the six scrapers fail: at most n of them
FaultPlans(n) ==
    {f \in [Companies -> Outcomes] : Cardinality({c \in Companies : f[c] # "ok"}) <= n}

\* scrape_all_company_careers: all_jobs.extend(jobs), future by future
scrape_all_company_careers(term, location, lim, order, plan) ==
    Concat([i \in 1..Len(order) |->
              Scraper(order[i], term, location, lim, plan[order[i]])])

\* run_scraper is entered: is_running is set and scrape_jobs starts a
\* scrape() of a new connector per site
RunScraper ==
    /\ runPc = "idle"
    /\ is_running' = TRUE
    /\ runPc' = "boards"
    /\ pc' = [s \in Sites |-> "loop"]
    /\ seen_urls' = {}
    /\ cursor' = None
    /\ start' = LinkedInStart(offset)
    /\ page' = 1
    /\ seen_ids' = [s \in {"linkedin", "naukri"} |-> {}]
    /\ job_list' = [s \in Sites |-> <<>>]
    /\ faultsLeft' = MaxFaults
    /\ UNCHANGED <<inputs, extractors, result, history, empvars, fanout, service, jobs_found, last_run,
                   jobs_data, company_jobs, transformed_jobs, raisedAt>>

\* scrape_jobs returns, or the exception of a connector comes out of it:
\* except Exception as e: raise e; finally: is_running = False
ScrapeJobsReturns ==
    /\ runPc = "boards"
    /\ \A s \in Sites : pc[s] \in {"done", "raised"}
    /\ IF \E s \in Sites : pc[s] = "raised"
       THEN /\ runPc' = "raised"
            /\ raisedAt' = "scrape_jobs"
            /\ is_running' = FALSE
            /\ UNCHANGED jobs_data
       ELSE /\ runPc' = "careers"
            /\ LET jobs == scrape_jobs_result(results_wanted)
               IN  \* jobs[available_cols]: the id is not among REQUIRED_FIELDS
                   jobs_data' = [k \in 1..Len(jobs) |->
                                   [job_url |-> jobs[k].job_url,
                                    site |-> jobs[k].site]]
            /\ UNCHANGED <<raisedAt, is_running>>
    /\ UNCHANGED <<inputs, extractors, locals, history, faultsLeft, empvars, fanout, service, jobs_found,
                   last_run, company_jobs, transformed_jobs>>

\* company_jobs = scrape_all_company_careers(search_term, "India", 10)
CompanyCareers ==
    /\ runPc = "careers"
    /\ \E order \in CompletionOrders, plan \in FaultPlans(faultsLeft) :
        /\ emp_outcome' = plan
        /\ emp_jobs' = [c \in Companies |->
                          Scraper(c, search_term, <<"India">>, limit, plan[c])]
        /\ company_jobs' = scrape_all_company_careers(search_term, <<"India">>,
                                                     limit, order, plan)
        /\ faultsLeft' = faultsLeft - Cardinality({c \in Companies : plan[c] # "ok"})
    /\ runPc' = "insert"
    /\ UNCHANGED <<inputs, extractors, locals, history, is_running, jobs_found, last_run,
                   jobs_data, transformed_jobs, raisedAt, fanout, service>>

\* the records are transformed and inserted; the status is updated
InsertJobs ==
    /\ runPc = "insert"
    /\ LET transformed ==
             [i \in 1..Len(jobs_data) |-> transform_jobspy_to_schema(jobs_data[i])]
             \o [i \in 1..Len(company_jobs) |->
                   transform_company_to_schema(company_jobs[i])]
       IN  /\ transformed_jobs' = transformed
           /\ \E o \in {"ok", "exc"} :
                IF o = "exc" /\ transformed # <<>>
                THEN /\ runPc' = "raised"
                     /\ raisedAt' = "insert_many"
                     /\ UNCHANGED <<jobs_found, last_run>>
                ELSE /\ runPc' = "done"
                     /\ jobs_found' = Len(transformed)
                     /\ last_run' = last_run + 1
                     /\ UNCHANGED raisedAt
    /\ is_running' = FALSE
    /\ UNCHANGED <<inputs, extractors, locals, history, faultsLeft, empvars, fanout, service, jobs_data,
                   company_jobs>>

\* ------------------------------- scrape_all_company_careers, by task
\* all_jobs.extend(jobs), moved to the front of the accumulator
Extend_Prepends(all, jobs) == jobs \o all

\* all_jobs.extend(jobs)
Extend(all, jobs) == all \o jobs

\* scrape_all_company_careers is called: all_jobs = [] and the six
\* scrapers are submitted to the executor
SubmitScrapers ==
    /\ site = "careers"
    /\ fanPc = "idle"
    /\ fanPc' = "merging"
    /\ futures' = [c \in Companies |-> "submitted"]
    /\ all_jobs' = <<>>
    /\ merged' = <<>>
    /\ faultsLeft' = MaxFaults
    /\ UNCHANGED <<inputs, extractors, locals, history, runvars, empvars, service>>

\* a worker thread runs the scraper of company c: the scraper returns its
\* own list, or an exception comes out of it
TaskRuns(c) ==
    /\ fanPc = "merging"
    /\ futures[c] = "submitted"
    /\ \E o \in Outcomes \cup {"raise"} :
        /\ o # "ok" => faultsLeft > 0
        /\ faultsLeft' = IF o # "ok" THEN faultsLeft - 1 ELSE faultsLeft
        /\ emp_outcome' = [emp_outcome EXCEPT ![c] = o]
        /\ emp_jobs' = [emp_jobs EXCEPT ![c] =
                          IF o = "raise" THEN <<>>
                          ELSE Scraper(c, search_term, <<"India">>, limit, o)]
        /\ futures' = [futures EXCEPT ![c] =
                         IF o = "raise" THEN "raised" ELSE "returned"]
    /\ UNCHANGED <<inputs, extractors, locals, history, runvars, service, fanPc,
                   all_jobs, merged>>

\* the orchestrating thread takes a completed future from as_completed:
\* jobs = future.result(); all_jobs.extend(jobs), or the except branch
FutureCompleted(c) ==
    /\ fanPc = "merging"
    /\ futures[c] \in {"returned", "raised"}
    /\ futures' = [futures EXCEPT ![c] = "merged"]
    /\ merged' = Append(merged, c)
    /\ all_jobs' = IF futures[c] = "returned"
                   THEN Extend(all_jobs, emp_jobs[c]) ELSE all_jobs
    /\ UNCHANGED <<inputs, extractors, locals, history, faultsLeft, runvars, empvars,
                   service, fanPc>>

\* every future was taken: return all_jobs
CareersReturn ==
    /\ fanPc = "merging"
    /\ \A c \in Companies : futures[c] = "merged"
    /\ fanPc' = "returned"
    /\ company_jobs' = all_jobs
    /\ UNCHANGED <<inputs, extractors, locals, history, faultsLeft, empvars, service,
                   futures, all_jobs, merged, is_running, jobs_found, last_run,
                   runPc, jobs_data, transformed_jobs, raisedAt>>

\* ------------------------------------------- the service's triggers
\* POST /scrape: 409 while is_running, else run_scraper is added to the
\* background tasks and runs after the response
TriggerScrape(r) ==
    /\ site = "service"
    /\ runs[r] = "none"
    /\ runs' = [runs EXCEPT ![r] = IF is_running THEN "rejected" ELSE "pending"]
    /\ UNCHANGED <<inputs, extractors, locals, history, faultsLeft, runvars, empvars,
                   fanout>>

\* scheduled_scrape: skipped while is_running, else it goes on to call
\* run_scraper
ScheduledScrape(r) ==
    /\ site = "service"
    /\ runs[r] = "none"
    /\ runs' = [runs EXCEPT ![r] = IF is_running THEN "skipped" ELSE "pending"]
    /\ UNCHANGED <<inputs, extractors, locals, history, faultsLeft, runvars, empvars,
                   fanout>>

\* run_scraper is entered by the thread of trigger r:
\* scraping_status["is_running"] = True
RunStarts(r) ==
    /\ runs[r] = "pending"
    /\ runs' = [runs EXCEPT ![r] = "running"]
    /\ is_running' = TRUE
    /\ UNCHANGED <<inputs, extractors, locals, history, faultsLeft, empvars, fanout,
                   jobs_found, last_run, runPc, jobs_data, company_jobs,
                   transformed_jobs, raisedAt>>

\* run_scraper of trigger r ends: with n records and the status stamped,
\* or by an exception; finally: scraping_status["is_running"] = False
RunEnds(r) ==
    /\ runs[r] = "running"
    /\ \/ \E n \in 0..MaxWanted :
            /\ runs' = [runs EXCEPT ![r] = "done"]
            /\ jobs_found' = n
            /\ last_run' = last_run + 1
       \/ /\ runs' = [runs EXCEPT ![r] = "failed"]
          /\ UNCHANGED <<jobs_found, last_run>>
    /\ is_running' = FALSE
    /\ UNCHANGED <<inputs, extractors, locals, history, faultsLeft, empvars, fanout,
                   runPc, jobs_data, company_jobs, transformed_jobs, raisedAt>>

\* ---------------------------------------------------- field extractors
\* a dict d has a value under key k that Python takes for true
Has(d, k) == k \in DOMAIN d /\ DOMAIN d[k] # {}

\* str.upper() of a unit of work
Upper(w) ==
    CASE w = "year" -> "YEAR"
      [] w = "Month" -> "MONTH"
      [] OTHER -> w

\* CompensationInterval.__members__ of jobspy.model: the canonical
\* intervals of day, week, month and year
CompensationIntervalMembers == {"DAILY", "WEEKLY", "MONTHLY", "YEARLY"}

\* interval_mapping.get(interval.upper())
interval_mapping(unit) ==
    CASE unit = "DAY" -> "DAILY"
      [] unit = "YEAR" -> "YEARLY"
      [] unit = "HOUR" -> "HOURLY"
      [] unit = "WEEK" -> "WEEKLY"
      [] unit = "MONTH" -> "MONTHLY"
      [] OTHER -> "None"

\* _get_compensation_interval(interval)
get_compensation_interval(interval) ==
    IF interval = "" THEN "None"
    ELSE IF interval_mapping(Upper(interval)) \in CompensationIntervalMembers
         THEN interval_mapping(Upper(interval))
         ELSE "None"

\* int(x) of an amount counted in hundredths: the fraction is dropped
IntOf(x) == (x \div 100) * 100

\* comp.get("range", {}).get(k), None when absent
RangeValue(comp, k) ==
    IF "range" \in DOMAIN comp /\ k \in DOMAIN comp.range THEN comp.range[k] ELSE None

\* get_compensation(compensation) of indeed/util.py
get_compensation(compensation) ==
    IF DOMAIN compensation = {} THEN [type |-> "NoneType"]
    ELSE IF ~Has(compensation, "baseSalary") /\ ~Has(compensation, "estimated")
    THEN [type |-> "NoneType"]
    ELSE LET comp == IF Has(compensation, "baseSalary") THEN compensation.baseSalary
                     ELSE IF "baseSalary" \in DOMAIN compensation.estimated
                          THEN compensation.estimated.baseSalary
                          ELSE <<>>
             unit == IF "unitOfWork" \in DOMAIN comp THEN comp.unitOfWork ELSE ""
             interval == get_compensation_interval(unit)
             min_range == RangeValue(comp, "min")
             max_range == RangeValue(comp, "max")
         IN  IF DOMAIN comp = {} THEN [type |-> "NoneType"]
             ELSE IF interval = "None" THEN [type |-> "NoneType"]
             ELSE [type |-> "Compensation",
                   interval |-> interval,
                   min_amount |-> IF min_range # None THEN IntOf(min_range) ELSE None,
                   max_amount |-> IF max_range # None THEN IntOf(max_range) ELSE None]

\* the numbers a label may hold, by their text, in tenths
Tenths ==
    ("1" :> 10) @@ ("12" :> 120) @@ ("16" :> 160) @@ ("2.3" :> 23) @@ ("2.5" :> 25)
    @@ ("8.2" :> 82)

\* the products float(text) * factor that the double arithmetic leaves
\* just below the decimal product: 2.3 * 100000 = 229999.99999999997,
\* 8.2 * 100000 = 819999.9999999999
RoundsBelow == {<<"2.3", Lakh>>, <<"8.2", Lakh>>}

\* int(float(text) * factor)
IntOfProduct(text, factor) ==
    Tenths[text] * (factor \div 10) - (IF <<text, factor>> \in RoundsBelow THEN 1 ELSE 0)

\* unit.lower() for the units (Lacs|Lakh|Cr) matches, letter case aside
SalaryUnit(word) ==
    CASE word \in {"Lacs", "lacs"} -> "lacs"
      [] word \in {"Lakh", "lakh", "Lakhs"} -> "lakh"
      [] word \in {"Cr", "Crore"} -> "cr"
      [] OTHER -> "None"

\* re.match(r"(\d+(?:\.\d+)?)\s*-\s*(\d+(?:\.\d+)?)\s*(Lacs|Lakh|Cr)", salary_text)
\* on a label given as its words
SalaryMatch(label) ==
    /\ Len(label) >= 4
    /\ label[1] \in DOMAIN Tenths
    /\ label[2] = "-"
    /\ label[3] \in DOMAIN Tenths
    /\ SalaryUnit(label[4]) # "None"

\* Naukri._get_compensation(placeholders)
RECURSIVE naukri_get_compensation(_)
naukri_get_compensation(placeholders) ==
    IF placeholders = <<>> THEN [type |-> "NoneType"]
    ELSE LET placeholder == Head(placeholders)
             salary_text == placeholder.label
         IN  IF placeholder.type # "salary"
             THEN naukri_get_compensation(Tail(placeholders))
             ELSE IF salary_text = <<"Not", "disclosed">> THEN [type |-> "NoneType"]
             ELSE IF ~SalaryMatch(salary_text)
             THEN naukri_get_compensation(Tail(placeholders))
             ELSE LET factor == IF SalaryUnit(salary_text[4]) = "cr" THEN Crore ELSE Lakh
                  IN  [type |-> "Compensation",
                       min_amount |-> IntOfProduct(salary_text[1], factor),
                       max_amount |-> IntOfProduct(salary_text[3], factor),
                       currency |-> "INR"]

\* datetime.now(), as a day number
Today == 20500

\* datetime.fromtimestamp(t / 1000).date(), timestamps counted in hours
DateOfTimestamp(t) == t \div 24

\* int(match.group(1)) of the numbers a label may hold
DayCounts == ("1" :> 1) @@ ("3" :> 3) @@ ("30" :> 30)

\* re.search(r"(\d+)\s*day", label): the places a number stands before day(s)
DayMatches(label) ==
    {i \in 1..(Len(label) - 1) :
        label[i] \in DOMAIN DayCounts /\ label[i + 1] \in {"day", "days"}}

\* Naukri._parse_date(label, created_date)
parse_date(label, created_date) ==
    IF label = <<>>
    THEN IF created_date # None /\ created_date # 0
         THEN DateOfTimestamp(created_date) ELSE None
    ELSE LET l == Lower(label)
         IN  IF In(<<"today">>, l) \/ In(<<"just", "now">>, l) \/ In(<<"few", "hours">>, l)
             THEN Today
             ELSE IF In(<<"ago">>, l)
             THEN IF DayMatches(l) # {}
                  THEN Today - DayCounts[l[CHOOSE i \in DayMatches(l) :
                                              \A j \in DayMatches(l) : i <= j]]
                  ELSE None
             ELSE IF created_date # None /\ created_date # 0
             THEN DateOfTimestamp(created_date)
             ELSE None

\* the least member of a set of positions
First(S) == CHOOSE i \in S : \A j \in S : i <= j

\* the word at place j of a text is one of ws
At(text, j, ws) == j \in 1..Len(text) /\ text[j] \in ws

\* [\d,]+(?:\.\d+)? : the amounts a description may hold
PayAmounts == {"200,000.00", "300,000.00", "25,000", "900,000", "10", "15", "12.5", "5"}

\* \d+(?:\.\d+)? : the numbers a description may hold
LpaNumbers == {"10", "15", "12.5", "5"}

\* (year|month|annum) matched at the head of a word
Period == ("year" :> "year") @@ ("years" :> "year") @@ ("month" :> "month")
          @@ ("annum" :> "annum")

\* the str a rule returns, by its words; Rs is the rupee sign
Str(words) == [type |-> "str", v |-> words]

\* an optional word of a pattern: the place after it when it stands at
\* place j, and j itself when it does not
Opt(l, ws) == [j \in 1..(Len(l) + 9) |-> IF At(l, j, ws) THEN j + 1 ELSE j]

\* (?:Up\s*to\s*)? : the place after the two words, or j itself
OptUpTo(l) ==
    [j \in 1..(Len(l) + 9) |->
        IF At(l, j, {"up"}) /\ At(l, j + 1, {"to"}) THEN j + 2 ELSE j]

\* pay_pattern matched at the word Pay: at place i
PayAt(text, i) ==
    LET l == Lower(text)
        c == Opt(l, {"Rs"})[OptUpTo(l)[Opt(l, {"from"})[i + 1]]]
        f == Opt(l, {"Rs"})[Opt(l, {"-", "to"})[c + 1]]
        g == Opt(l, PayAmounts)[f]
        h == Opt(l, {"per"})[g]
    IN  IF At(l, i, {"pay:"}) /\ At(l, c, PayAmounts) /\ At(l, h, DOMAIN Period)
        THEN [matched |-> TRUE, min_sal |-> text[c],
              max_sal |-> IF g > f THEN text[f] ELSE "None",
              period |-> Period[l[h]]]
        ELSE [matched |-> FALSE]

\* re.search(pay_pattern, text, re.IGNORECASE) and the str built from it
pay_pattern(text) ==
    LET found == {i \in 1..Len(text) : PayAt(text, i).matched}
    IN  IF found = {} THEN [type |-> "NoneType"]
        ELSE LET match == PayAt(text, First(found))
                 period_str == IF match.period \in {"year", "annum"}
                               THEN <<"per", "year">> ELSE <<"per", "month">>
             IN  IF match.max_sal # "None"
                 THEN Str(<<"Rs", match.min_sal, "-", "Rs", match.max_sal>> \o period_str)
                 ELSE Str(<<"Rs", match.min_sal>> \o period_str)

\* (?:-|to) between two numbers, the first at place i
RangeAt(l, i) ==
    At(l, i, LpaNumbers) /\ At(l, i + 1, {"-", "to"}) /\ At(l, i + 2, LpaNumbers)

\* lpa | lakhs? (per)? (annum | p.a.?) at place j; pa tells whether p.a. counts
LpaUnitAt(l, j, pa) ==
    LET ends == {"annum"} \cup (IF pa THEN {"p.a.", "p.a"} ELSE {})
    IN  \/ At(l, j, {"lpa"})
        \/ /\ At(l, j, {"lakh", "lakhs"})
           /\ \/ At(l, j + 1, ends)
              \/ At(l, j + 1, {"per"}) /\ At(l, j + 2, ends)

\* re.search(lpa_pattern, text, re.IGNORECASE) and the str built from it
lpa_pattern(text) ==
    LET l == Lower(text)
        found == {i \in 1..Len(l) : RangeAt(l, i) /\ LpaUnitAt(l, i + 3, TRUE)}
    IN  IF found = {} THEN [type |-> "NoneType"]
        ELSE Str(<<"Rs", text[First(found)], "-", text[First(found) + 2], "LPA">>)

\* re.search(single_lpa, text, re.IGNORECASE) and the str built from it
single_lpa(text) ==
    LET l == Lower(text)
        found == {i \in 1..Len(l) : At(l, i, LpaNumbers) /\ LpaUnitAt(l, i + 1, FALSE)}
    IN  IF found = {} THEN [type |-> "NoneType"]
        ELSE Str(<<"Rs", text[First(found)], "LPA">>)

\* re.search(ctc_pattern, text, re.IGNORECASE) and the str built from it
ctc_pattern(text) ==
    LET l == Lower(text)
        found == {i \in 1..Len(l) : At(l, i, {"ctc:", "ctc"}) /\ RangeAt(l, i + 1)}
    IN  IF found = {} THEN [type |-> "NoneType"]
        ELSE Str(<<"Rs", text[First(found) + 1], "-", text[First(found) + 3], "LPA">>)

\* extract_indian_salary with the two middle rules in the other order
extract_indian_salary_SingleFirst(description) ==
    IF description = <<>> THEN [type |-> "NoneType"]
    ELSE IF pay_pattern(description).type = "str" THEN pay_pattern(description)
    ELSE IF single_lpa(description).type = "str" THEN single_lpa(description)
    ELSE IF lpa_pattern(description).type = "str" THEN lpa_pattern(description)
    ELSE IF ctc_pattern(description).type = "str" THEN ctc_pattern(description)
    ELSE [type |-> "NoneType"]

\* extract_indian_salary(description); <<>> is a description that is None or ''
extract_indian_salary(description) ==
    IF description = <<>> THEN [type |-> "NoneType"]
    ELSE IF pay_pattern(description).type = "str" THEN pay_pattern(description)
    ELSE IF lpa_pattern(description).type = "str" THEN lpa_pattern(description)
    ELSE IF single_lpa(description).type = "str" THEN single_lpa(description)
    ELSE IF ctc_pattern(description).type = "str" THEN ctc_pattern(description)
    ELSE [type |-> "NoneType"]

\* d.get(key, default) of a dict given as a function; a None value is
\* kept, the default stands for a missing key only
Get(d, key, default) == IF key \in DOMAIN d THEN d[key] ELSE default

\* truth of a str or None field; None is written "None"
TruthyStr(v) == v \notin {"None", ""}

\* the posted_date of transform_jobspy_to_schema: a date is kept, a
\* non-zero number is read as a timestamp, anything else stays
posted_date(doc) ==
    LET d == Get(doc, "date_posted", [type |-> "NoneType"])
    IN  IF d.type = "date" THEN d.v
        ELSE IF d.type = "int" /\ d.v # 0 THEN DateOfTimestamp(d.v)
        ELSE IF d.type = "int" THEN d.v
        ELSE None

\* the salary_range of transform_jobspy_to_schema
salary_range(doc) ==
    LET min_amt == Get(doc, "min_amount", None)
        max_amt == Get(doc, "max_amount", None)
    IN  IF min_amt \notin {None, 0} /\ max_amt \notin {None, 0}
        THEN [type |-> "str", currency |-> Get(doc, "currency", "INR"),
              min_amt |-> min_amt, max_amt |-> max_amt,
              interval |-> Get(doc, "interval", "yearly")]
        ELSE IF min_amt \notin {None, 0}
        THEN [type |-> "str", currency |-> Get(doc, "currency", "INR"),
              min_amt |-> min_amt]
        ELSE extract_indian_salary(Get(doc, "description", <<>>))

\* the title, company_name, salary_range and posted_at of the record
\* transform_jobspy_to_schema(doc) returns
jobspy_schema(doc) ==
    [title |-> Get(doc, "title", "Unknown Title"),
     company_name |-> IF TruthyStr(Get(doc, "company_name", "None"))
                      THEN doc.company_name
                      ELSE Get(doc, "company", "Unknown Company"),
     salary_range |-> salary_range(doc),
     posted_at |-> IF posted_date(doc) \notin {None, 0} THEN posted_date(doc) ELSE Today]

\* datetime.strptime(s, "%Y-%m-%d") of the strings it parses, as a day number
strptime == ("2026-01-15" :> 20468)

\* the title, company_name, salary_range and posted_at of the record
\* transform_company_to_schema(job) returns
company_schema(job) ==
    LET given == Get(job, "posted_at", "None")
        posted_at == IF given = "None" THEN None
                     ELSE IF given \in DOMAIN strptime THEN strptime[given]
                     ELSE Today
    IN  [title |-> Get(job, "title", "Unknown Title"),
         company_name |-> Get(job, "company_name", "Unknown Company"),
         salary_range |-> Get(job, "salary_range", [type |-> "NoneType"]),
         posted_at |-> IF posted_at # None THEN posted_at ELSE Today]

\* Country.from_string(name): the member of Country the name stands for
from_string(name) ==
    CASE name = "worldwide" -> "WORLDWIDE"
      [] name = "India" -> "INDIA"
      [] name = "Germany" -> "GERMANY"
      [] name = "United States" -> "USA"

\* Location(city, state, country); a field left out is None
Location(city, state, country) == [city |-> city, state |-> state, country |-> country]

\* LinkedIn._get_location(metadata_card): parts is location_string.split(", "),
\* <<>> where the card or the location tag is missing
linkedin_get_location(parts) ==
    IF Len(parts) = 2
    THEN Location(parts[1], parts[2], from_string("worldwide"))
    ELSE IF Len(parts) = 3
    THEN Location(parts[1], parts[2], from_string(parts[3]))
    ELSE Location("None", "None", from_string("worldwide"))

\* Naukri._get_location(placeholders): label is location_str.split(", ")
RECURSIVE naukri_get_location(_)
naukri_get_location(placeholders) ==
    IF placeholders = <<>> THEN Location("None", "None", "INDIA")
    ELSE LET placeholder == Head(placeholders)
             parts == placeholder.label
         IN  IF placeholder.type = "location"
             THEN Location(IF Len(parts) > 0 THEN parts[1] ELSE "None",
                           IF Len(parts) > 1 THEN parts[2] ELSE "None",
                           "INDIA")
             ELSE naukri_get_location(Tail(placeholders))

\* the extractor or transform named by arg is applied to its argument
Applied(fn, value) ==
    /\ call = "none"
    /\ arg.fn = fn
    /\ call' = fn
    /\ ret' = value
    /\ UNCHANGED <<inputs, locals, history, faultsLeft, runvars, empvars, fanout, service, arg>>

GetCompensation == Applied("get_compensation", get_compensation(arg.in))

NaukriParseDate ==
    Applied("Naukri._parse_date", parse_date(arg.in.label, arg.in.created_date))

LinkedInGetLocation ==
    Applied("LinkedIn._get_location", linkedin_get_location(arg.in))

NaukriGetLocation ==
    Applied("Naukri._get_location", naukri_get_location(arg.in))

ExtractIndianSalary ==
    Applied("extract_indian_salary", extract_indian_salary(arg.in))

TransformJobspyToSchema ==
    Applied("transform_jobspy_to_schema", jobspy_schema(arg.in))

TransformCompanyToSchema ==
    Applied("transform_company_to_schema", company_schema(arg.in))

NaukriGetCompensation ==
    Applied("Naukri._get_compensation", naukri_get_compensation(arg.in))

\* ------------------------------------------------------ specification
\* inputs of the harness: any small listing with any quota, and the
\* listings of distinct records cut into full pages
ArbInputs ==
    {<<l, p, w>> : l \in SeqsUpTo(0..MaxId, MaxLen), p \in 1..MaxPageSize,
                   w \in 0..MaxWanted}

UniformInputs ==
    {<<[i \in 1..UniformLen |-> i], p, w>> : p \in 1..UniformPage,
                                             w \in 0..UniformWanted}

\* a source that repeats a record before it serves a new one
RepeatInputs ==
    {<<(<<1, 1, 2>>), p, w>> : p \in 1..MaxPageSize, w \in 0..MaxWanted}

Titles == {<<"Software", "Engineer">>, <<"engineer">>, <<"Data">>}
Locations == {<<"Bangalore", "India">>, <<"Remote">>, <<"Berlin">>}
Terms == {<<"software", "engineer">>, <<"Engineer">>, <<"data">>}
Postings == [title : Titles, loc : Locations]

\* the state every specification starts from, inputs aside
Constructed ==
    /\ seen_urls = {}
    /\ cursor = None
    /\ start = 0
    /\ page = 1
    /\ seen_ids = [s \in {"linkedin", "naukri"} |-> {}]
    /\ job_list = [s \in Sites |-> <<>>]
    /\ pc = [s \in Sites |-> "idle"]
    /\ result = [s \in Sites |-> <<>>]
    /\ reqs = [s \in Sites |-> <<>>]
    /\ events = [s \in Sites |-> <<>>]
    /\ added = [s \in Sites |-> <<>>]
    /\ outcomes = [s \in Sites |-> <<>>]
    /\ past = [s \in Sites |-> <<>>]
    /\ faulted = [s \in Sites |-> FALSE]
    /\ faultsLeft = 1
    /\ emp_outcome = [c \in Companies |-> "none"]
    /\ emp_jobs = [c \in Companies |-> <<>>]
    /\ is_running = FALSE
    /\ jobs_found = 0
    /\ last_run = 0
    /\ runPc = "idle"
    /\ raisedAt = "none"
    /\ jobs_data = <<>>
    /\ company_jobs = <<>>
    /\ transformed_jobs = <<>>
    /\ fanPc = "idle"
    /\ futures = [c \in Companies |-> "none"]
    /\ all_jobs = <<>>
    /\ merged = <<>>
    /\ runs = [r \in Triggers |-> "none"]
    /\ call = "none"
    /\ ret = None

\* the harness: one board connector, or one employer scraper, under test
InitBoard ==
    /\ site \in Sites
    /\ \E in \in ArbInputs \cup UniformInputs \cup RepeatInputs :
        /\ listing = in[1]
        /\ pageSize = in[2]
        /\ results_wanted = in[3]
    /\ endless = FALSE
    /\ arg = None
    /\ lastCursor \in IF site = "indeed" THEN {"null", "missing"} ELSE {"null"}
    /\ offset \in 0..MaxOffset
    /\ search_term = <<"software", "engineer">>
    /\ feed = <<>>
    /\ limit = CareersLimit

InitEmployer ==
    /\ site \in Companies
    /\ listing = <<>>
    /\ pageSize = 1
    /\ endless = FALSE
    /\ results_wanted = 0
    /\ lastCursor = "null"
    /\ offset = 0
    /\ search_term \in Terms
    /\ feed \in SeqsUpTo(Postings, MaxFeed)
    /\ arg = None
    /\ limit \in 0..MaxFeed

Init ==
    /\ InitBoard \/ InitEmployer
    /\ Constructed

Next ==
    \/ IndeedScrape
    \/ IndeedLoopExit
    \/ IndeedIteration
    \/ LinkedInScrape
    \/ LinkedInLoopExit
    \/ LinkedInIteration
    \/ NaukriScrape
    \/ NaukriLoopExit
    \/ NaukriIteration
    \/ CallScraper

Spec == Init /\ [][Next]_vars

\* one run of run_scraper: the three boards see the same listing, every
\* employer API serves the same feed
RunListings == SeqsUpTo({1, 2}, 2)
RunFeeds ==
    {<<>>,
     <<[title |-> <<"Software", "Engineer">>, loc |-> <<"Bangalore", "India">>]>>,
     <<[title |-> <<"Data">>, loc |-> <<"Berlin">>],
       [title |-> <<"engineer">>, loc |-> <<"Remote">>]>>}

InitRun ==
    /\ site = "all"
    /\ listing \in RunListings
    /\ pageSize \in 1..2
    /\ endless = FALSE
    /\ results_wanted \in 0..2
    /\ lastCursor \in {"null", "missing"}
    /\ offset = 0
    /\ search_term \in {<<"software", "engineer">>, <<"data">>}
    /\ feed \in RunFeeds
    /\ arg = None
    /\ limit = CareersLimit
    /\ Constructed

NextRun ==
    \/ RunScraper
    \/ IndeedLoopExit
    \/ IndeedIteration
    \/ LinkedInLoopExit
    \/ LinkedInIteration
    \/ NaukriLoopExit
    \/ NaukriIteration
    \/ ScrapeJobsReturns
    \/ CompanyCareers
    \/ InsertJobs

SpecRun == InitRun /\ [][NextRun]_vars

\* the service: POST /scrape requests and scheduled_scrape firings, each
\* run in a thread of its own
InitService ==
    /\ site = "service"
    /\ listing = <<>>
    /\ pageSize = 1
    /\ endless = FALSE
    /\ lastCursor = "null"
    /\ results_wanted = 0
    /\ offset = 0
    /\ search_term = <<"software", "engineer">>
    /\ feed = <<>>
    /\ limit = CareersLimit
    /\ arg = None
    /\ Constructed

NextService ==
    \/ \E r \in Triggers : TriggerScrape(r)
    \/ \E r \in Triggers : ScheduledScrape(r)
    \/ \E r \in Triggers : RunStarts(r)
    \/ \E r \in Triggers : RunEnds(r)

SpecService == InitService /\ [][NextService]_vars

\* scrape_all_company_careers on its own, task by task
InitFanOut ==
    /\ site = "careers"
    /\ listing = <<>>
    /\ pageSize = 1
    /\ endless = FALSE
    /\ lastCursor = "null"
    /\ results_wanted = 0
    /\ offset = 0
    /\ search_term = <<"software", "engineer">>
    /\ feed \in RunFeeds
    /\ limit = CareersLimit
    /\ arg = None
    /\ Constructed

NextFanOut ==
    \/ SubmitScrapers
    \/ \E c \in Companies : TaskRuns(c)
    \/ \E c \in Companies : FutureCompleted(c)
    \/ CareersReturn

SpecFanOut == InitFanOut /\ [][NextFanOut]_vars

\* the sleeping connectors against a source that never runs dry, with
\* query offsets below, at and beyond LinkedIn's ceiling
CeilingListings == {<<1>>, <<NoKey>>, <<1, 2>>, <<NoKey, 1>>}
CeilingPageSizes == {7, 25}
CeilingOffsets == {0, 15, 25, 990, 1000, 1005}

InitCeiling ==
    /\ site \in {"linkedin", "naukri"}
    /\ listing \in CeilingListings
    /\ pageSize \in CeilingPageSizes
    /\ endless = TRUE
    /\ arg = None
    /\ results_wanted \in 1..MaxWanted
    /\ lastCursor = "null"
    /\ offset \in CeilingOffsets
    /\ search_term = <<"software", "engineer">>
    /\ feed = <<>>
    /\ limit = CareersLimit
    /\ Constructed

NextCeiling ==
    \/ LinkedInScrape
    \/ LinkedInLoopExit
    \/ LinkedInIteration
    \/ NaukriScrape
    \/ NaukriLoopExit
    \/ NaukriIteration

SpecCeiling == InitCeiling /\ [][NextCeiling]_vars

\* the harness against the sources that end and the sources that never
\* run dry
SpecTerminate ==
    /\ (InitBoard \/ InitEmployer \/ InitCeiling)
    /\ Constructed
    /\ [][Next]_vars

\* the field extractors and the transforms, each applied once to an
\* argument drawn from a bounded set
Units == {"YEAR", "year", "Month", "DECADE", ""}
\* amounts in hundredths: 50000.00 and 80500.75
Amounts == {None, 5000000, 8050075}
Ranges == [min : Amounts, max : Amounts]
SalaryRecs ==
    {<<>>} \cup [unitOfWork : Units, range : Ranges] \cup [range : Ranges]
    \cup [unitOfWork : Units]
CompensationInputs ==
    {<<>>, [currencyCode |-> "INR"], [estimated |-> [currencyCode |-> "INR"]]}
    \cup [baseSalary : SalaryRecs]
    \cup [estimated : [baseSalary : SalaryRecs]]
    \cup [baseSalary : {<<>>, [unitOfWork |-> "YEAR"]},
          estimated : [baseSalary : [unitOfWork : {"Month"}, range : Ranges]]]

SalaryLabels ==
    {<<x, "-", y, u>> \o t : x \in {"12", "2.3", "1"}, y \in {"16", "8.2", "2.5"},
                            u \in {"Lacs", "Lakh", "lakhs", "Cr", "LPA"},
                            t \in {<<>>, <<"P.A.">>}}
    \cup {<<"Not", "disclosed">>, <<>>, <<"Rs", "12", "-", "16", "Lacs">>}
PlaceholderInputs ==
    {<<>>, <<[type |-> "experience", label |-> <<"2", "-", "5", "Yrs">>]>>}
    \cup {<<[type |-> "salary", label |-> l]>> : l \in SalaryLabels}
    \cup {<<[type |-> "experience", label |-> <<"2", "-", "5", "Yrs">>],
             [type |-> "salary", label |-> <<"12", "-", "16", "Lacs", "P.A.">>]>>,
           <<[type |-> "salary", label |-> <<"Rs", "12", "-", "16", "Lacs">>],
             [type |-> "salary", label |-> <<"1", "-", "2.5", "Cr">>]>>}

DateLabels ==
    {<<>>, <<"Today">>, <<"Just", "Now">>, <<"Few", "Hours", "Ago">>,
     <<"1", "Day", "Ago">>, <<"3", "Days", "Ago">>, <<"30+", "Days", "Ago">>,
     <<"3", "Weeks", "Ago">>, <<"Posted", "recently">>}
\* createdDate: absent, 0, or an hour of day 20000
DateInputs == [label : DateLabels, created_date : {None, 0, 480012}]

\* a location text by its ", " segments; <<>> is a card without location tag
LocationParts ==
    {<<>>, <<"Remote">>, <<"Bengaluru">>, <<"Pune", "Maharashtra">>,
     <<"Berlin", "Berlin", "Germany">>, <<"Pune", "Maharashtra", "India">>,
     <<"Austin", "Texas", "United States">>,
     <<"Noida", "Uttar Pradesh", "India", "Hybrid">>}
LocationPlaceholders ==
    {<<>>, <<[type |-> "experience", label |-> <<"2", "-", "5", "Yrs">>]>>}
    \cup {<<[type |-> "experience", label |-> <<"2", "-", "5", "Yrs">>],
              [type |-> "location", label |-> l]>> : l \in LocationParts \ {<<>>}}
    \cup {<<[type |-> "location", label |-> <<"Pune">>],
             [type |-> "location", label |-> <<"Mumbai", "Maharashtra">>]>>}

\* the phrases a description is made of
Phrases ==
    {<<"Pay:", "Rs", "200,000.00", "-", "Rs", "300,000.00", "per", "year">>,
     <<"Pay:", "From", "Rs", "25,000", "per", "month">>,
     <<"pay:", "Up", "to", "Rs", "900,000", "per", "annum">>,
     <<"Pay:", "5", "years">>,
     <<"Pay:", "negotiable">>,
     <<"Pay:", "10", "-", "15", "LPA">>,
     <<"10", "-", "15", "LPA">>,
     <<"10", "to", "15", "lakhs", "per", "annum">>,
     <<"12.5", "-", "15", "Lakhs", "p.a.">>,
     <<"upto", "15", "LPA">>,
     <<"up", "to", "5", "lakhs", "annum">>,
     <<"CTC:", "10", "-", "15", "lakhs">>,
     <<"ctc", "12.5", "to", "15">>,
     <<"5", "years">>,
     <<"Good", "benefits">>}
Descriptions == {<<>>} \cup Phrases \cup {p \o q : p, q \in Phrases}

\* f without the keys of gone
Without(f, gone) == [k \in DOMAIN f \ gone |-> f[k]]

\* rows of the job-board frame: a missing value is None (NaN cleaned), a
\* column no connector filled is missing
JobspyRows ==
    [title : {"None", "Engineer"}, company : {"None", "Acme"},
     company_name : {"None"},
     min_amount : {None, 500000}, max_amount : {None, 800000},
     currency : {"INR"}, interval : {"yearly"},
     description : {<<>>, <<"10", "-", "15", "LPA">>, <<"Good", "benefits">>},
     date_posted : {[type |-> "NoneType"], [type |-> "date", v |-> 20000],
                    [type |-> "int", v |-> 480012], [type |-> "int", v |-> 0]}]
JobspyDocs ==
    JobspyRows
    \cup {Without(d, {"company_name"}) : d \in JobspyRows}
    \cup {Without(d, {"title", "company", "company_name"}) : d \in JobspyRows}

\* records of the employer scrapers: every key is set, title and posted_at
\* by job.get, which gives None for a posting without them; salary_range
\* is None in every scraper
CompanyRows ==
    [title : {"None", "Engineer"}, company_name : {"Amazon", "GitLab"},
     description : {<<>>, <<"10", "-", "15", "LPA">>, <<"Good", "benefits">>},
     salary_range : {[type |-> "NoneType"]},
     posted_at : {"None", "", "2026-01-15", "January 15, 2026"}]

ExtractorInputs ==
    [fn : {"get_compensation"}, in : CompensationInputs]
    \cup [fn : {"Naukri._get_compensation"}, in : PlaceholderInputs]
    \cup [fn : {"Naukri._parse_date"}, in : DateInputs]
    \cup [fn : {"transform_jobspy_to_schema"}, in : JobspyDocs]
    \cup [fn : {"transform_company_to_schema"}, in : CompanyRows]
    \cup [fn : {"extract_indian_salary"}, in : Descriptions]
    \cup [fn : {"LinkedIn._get_location"}, in : LocationParts]
    \cup [fn : {"Naukri._get_location"}, in : LocationPlaceholders]

InitExtract ==
    /\ site = "none"
    /\ listing = <<>>
    /\ pageSize = 1
    /\ endless = FALSE
    /\ lastCursor = "null"
    /\ results_wanted = 0
    /\ offset = 0
    /\ search_term = <<>>
    /\ feed = <<>>
    /\ limit = CareersLimit
    /\ arg \in ExtractorInputs
    /\ Constructed

NextExtract ==
    \/ GetCompensation
    \/ NaukriGetCompensation
    \/ NaukriParseDate
    \/ TransformJobspyToSchema
    \/ TransformCompanyToSchema
    \/ ExtractIndianSalary
    \/ LinkedInGetLocation
    \/ NaukriGetLocation

SpecExtract == InitExtract /\ [][NextExtract]_vars

\* ------------------------------------------------------------- claims
\* what scrape() of connector s returns from its accumulator at a break
Accumulated(s) ==
    IF s = "indeed" THEN IndeedResult(job_list[s], results_wanted, offset)
    ELSE job_list[s]

Last(q) == q[Len(q)]

\* the listing holds distinct keyed records and more than n full pages
FullUniquePages(n) ==
    /\ \A i \in 1..Len(listing) : listing[i] # NoKey
    /\ \A i, j \in 1..Len(listing) : i # j => listing[i] # listing[j]
    /\ Len(listing) > n * pageSize

\* C4: on a run with offset 0 and quota N, against a source whose pages all
\* hold pageSize distinct records, a board connector ends normally after
\* exactly ceil(N / pageSize) page requests with exactly N records.
C4_FullPagesFetchCount ==
    \A s \in Sites :
        ( /\ pc[s] \in {"done", "raised"}
          /\ offset = 0
          /\ ~faulted[s]
          /\ FullUniquePages(CeilDiv(results_wanted, pageSize)) )
        => /\ pc[s] = "done"
           /\ Len(reqs[s]) = CeilDiv(results_wanted, pageSize)
           /\ Len(result[s]) = results_wanted

\* C5: in LinkedIn.scrape a fetched page that adds no new record (no
\* card, or only cards with ids already seen) is the last request of the
\* run.
C5_ZeroNewPageEndsRun ==
    (\A k \in 1..Len(listing) : listing[k] # NoKey)
    => \A i \in 1..(Len(added["linkedin"]) - 1) : added["linkedin"][i] > 0

\* the requests of this Indeed run, before the last, whose successful
\* response carried well-formed records and no next cursor
IndeedEnded(i) ==
    /\ outcomes["indeed"][i] = "ok"
    /\ IndeedNextCursor(IndeedPageIndex(reqs["indeed"][i])) \in {None, Missing}
    /\ \A k \in 1..Len(listing) : listing[k] # NoKey

\* C6: once a successful Indeed response has omitted the next cursor, the
\* run ends without raising.
C6_NoCursorEndsWithoutRaising ==
    ( /\ pc["indeed"] \in {"done", "raised"}
      /\ \E i \in 1..Len(reqs["indeed"]) : IndeedEnded(i) )
    => pc["indeed"] = "done"

\* C7: after an Indeed response without next cursor no page is requested:
\* no request but the first of a run goes out without cursor.
C7_NoRequestAfterLastPage ==
    \A i \in 2..Len(reqs["indeed"]) : reqs["indeed"][i] # None

\* C8: two scrape() calls on one connector instance, with the same query
\* against the same source and no failed request, return the same records.
C8_RunsAgree ==
    \A s \in Sites :
        ( /\ Len(past[s]) = 2
          /\ ~faulted[s]
          /\ ~past[s][1].raised
          /\ ~past[s][2].raised )
        => past[s][1].jobs = past[s][2].jobs

\* C9: when a page request raises in the transport, scrape() returns the
\* records accumulated so far and does not raise.
C9_TransportErrorReturns ==
    \A s \in Sites :
        (Len(outcomes[s]) > 0 /\ Last(outcomes[s]) = "exc")
        => /\ pc[s] = "done"
           /\ result[s] = Accumulated(s)

\* C10: a page request answered with a non-success status adds no record,
\* is the last request of the run, and scrape() returns normally what it
\* had accumulated.
C10_BadStatusReturns ==
    /\ \A s \in Sites :
        /\ \A i \in 1..(Len(outcomes[s]) - 1) : outcomes[s][i] # "status"
        /\ (Len(outcomes[s]) > 0 /\ Last(outcomes[s]) = "status")
           => /\ pc[s] = "done"
              /\ Last(added[s]) = 0
              /\ result[s] = Accumulated(s)
    /\ \A c \in Companies : emp_outcome[c] = "status" => emp_jobs[c] = <<>>

\* a board connector that had accumulated a record is answered with a
\* non-success status
C10_Witness ==
    \E s \in Sites :
        /\ Len(outcomes[s]) > 1
        /\ Last(outcomes[s]) = "status"
        /\ pc[s] = "done"
        /\ Len(result[s]) > 0

\* ids of the records are pairwise distinct
DistinctIds(jobs) ==
    \A i, j \in 1..Len(jobs) : i # j => jobs[i].id # jobs[j].id

\* C2: in one run of run_scraper no id is emitted twice: not within the
\* records of one connector, not across the connectors, not in the merged
\* records.
C2_NoIdEmittedTwice ==
    /\ \A s \in Sites : DistinctIds(job_list[s]) /\ DistinctIds(result[s])
    /\ DistinctIds(Concat([i \in 1..3 |-> result[site_name[i]]]))
    /\ runPc \in {"careers", "insert", "done"}
       => DistinctIds(scrape_jobs_result(results_wanted))

\* the source repeated a record on a later page, every connector fetched
\* both pages, and records of two connectors were merged
C2_Witness ==
    /\ Len(listing) = 2
    /\ listing[1] = listing[2]
    /\ pageSize = 1
    /\ \A s \in Sites : pc[s] = "done" /\ Len(reqs[s]) >= 2 /\ Len(result[s]) = 1
    /\ Len(jobs_data) = 2

\* C1: the records a run of run_scraper ends with are at most
\* results_wanted.
C1_ResultWithinQuota ==
    runPc = "done" => Len(transformed_jobs) <= results_wanted

\* the connectors, board and employer, a request of which raised
TransportErrors ==
    {s \in Sites : \E i \in 1..Len(outcomes[s]) : outcomes[s][i] = "exc"}
    \cup {c \in Companies : emp_outcome[c] = "exc"}

\* every connector without transport error succeeded
OthersSucceed ==
    /\ \A s \in Sites \ TransportErrors : pc[s] = "done" /\ ~faulted[s]
    /\ \A c \in Companies \ TransportErrors : emp_outcome[c] \in {"none", "ok"}

\* C3: when a request of one connector raises in the transport and the
\* other connectors succeed, the run still ends normally, with records of
\* the other connectors only.
C3_TransportErrorContained ==
    ( /\ runPc \in {"done", "raised"}
      /\ raisedAt # "insert_many"
      /\ Cardinality(TransportErrors) = 1
      /\ OthersSucceed )
    => /\ runPc = "done"
       /\ \A i \in 1..Len(transformed_jobs) :
             transformed_jobs[i].source \notin TransportErrors

\* the id prefix of a connector
Prefix(s) ==
    CASE s = "indeed" -> "in" [] s = "linkedin" -> "li" [] s = "naukri" -> "nk"

\* the page the i-th request of this run of connector s was served
FetchedPage(s, i) ==
    CASE s = "indeed" -> PageNo(IndeedPageIndex(reqs[s][i]))
      [] s = "linkedin" -> PageAt(reqs[s][i])
      [] s = "naukri" -> PageNo(reqs[s][i])

\* the quota of connector s is filled
QuotaFilled(s) ==
    Len(job_list[s]) >= results_wanted + (IF s = "indeed" THEN offset ELSE 0)

\* C11: a record without its required key is skipped on its own: on a run
\* whose requests all succeeded with a well-formed page envelope the
\* connector does not raise, and once it has returned every keyed record
\* of a fetched page that held a malformed one is in its output, unless
\* the quota is filled.
C11_MalformedRecordSkipped ==
    \A s \in Sites :
        ( /\ lastCursor = "null"
          /\ \A i \in 1..Len(outcomes[s]) : outcomes[s][i] = "ok" )
        => /\ pc[s] # "raised"
           /\ (pc[s] = "done" /\ Len(past[s]) = 1)
              => \A i \in 1..Len(reqs[s]) :
                    LET pg == FetchedPage(s, i)
                    IN  (\E k \in 1..Len(pg) : pg[k] = NoKey)
                        => \/ QuotaFilled(s)
                           \/ \A k \in 1..Len(pg) :
                                 pg[k] # NoKey
                                 => \E j \in 1..Len(job_list[s]) :
                                       job_list[s][j].id = <<Prefix(s), pg[k]>>

\* C12: Naukri.scrape attempts at most 50 page requests in one run, pages
\* 1 to 50, whatever the quota and whatever the source keeps returning.
C12_NaukriPageCeiling ==
    /\ Len(reqs["naukri"]) <= MaxPage
    /\ \A i \in 1..Len(reqs["naukri"]) : reqs["naukri"][i] = i

\* a source that never runs dry served 50 pages of already-seen or
\* id-less records and the run ended short of its quota
C12_Witness ==
    /\ endless
    /\ pc["naukri"] = "done"
    /\ Len(reqs["naukri"]) = MaxPage
    /\ \A i \in 1..MaxPage : outcomes["naukri"][i] = "ok"
    /\ \A i \in 2..MaxPage : added["naukri"][i] = 0
    /\ Len(result["naukri"]) < results_wanted

\* C13: LinkedIn.scrape never requests a page at start >= 1000, and a run
\* whose start has reached the ceiling ends with the records accumulated.
C13_LinkedInStartCeiling ==
    /\ \A i \in 1..Len(reqs["linkedin"]) : reqs["linkedin"][i] < MaxStart
    /\ (pc["linkedin"] = "done" /\ start >= MaxStart)
       => result["linkedin"] = job_list["linkedin"]

\* a run from offset 0 advanced page by page up to the ceiling and ended
\* there, short of its quota
C13_Witness ==
    /\ offset = 0
    /\ pc["linkedin"] = "done"
    /\ start >= MaxStart
    /\ Len(reqs["linkedin"]) > 1
    /\ Last(reqs["linkedin"]) + pageSize >= MaxStart
    /\ Last(outcomes["linkedin"]) = "ok"
    /\ Len(result["linkedin"]) < results_wanted

\* C14: every record Naukri.scrape returns has a title that contains the
\* search term.
C14_NaukriTitleFilter ==
    \A j \in 1..Len(result["naukri"]) :
        In(Lower(search_term), Lower(result["naukri"][j].title))

\* C15: an employer scraper returns at most limit records, however many
\* postings the response of the employer's API holds.
C15_EmployerLimit ==
    \A c \in Companies : Len(emp_jobs[c]) <= limit

\* C16: every record scrape_all_company_careers returns for search term T
\* has a title that contains T, letter case aside.
C16_CareersTitleFilter ==
    \A j \in 1..Len(company_jobs) :
        In(Lower(search_term), Lower(company_jobs[j].title))

\* C17: in LinkedIn.scrape and Naukri.scrape the events of a run are
\* fetch, (sleep, fetch)*: fetches and sleeps alternate, beginning with a
\* fetch, and a run that has ended took no sleep after its last fetch.
C17_SleepBetweenFetches ==
    \A s \in {"linkedin", "naukri"} :
        /\ \A i \in 1..Len(events[s]) :
              events[s][i] = (IF i % 2 = 1 THEN "fetch" ELSE "sleep")
        /\ (pc[s] = "done" /\ events[s] # <<>>) => Last(events[s]) = "fetch"

\* the keyed records of q in source order, each at its first occurrence
RECURSIVE Dedup(_, _)
Dedup(q, seen) ==
    IF q = <<>> THEN <<>>
    ELSE IF Head(q) = NoKey \/ Head(q) \in seen THEN Dedup(Tail(q), seen)
    ELSE <<Head(q)>> \o Dedup(Tail(q), seen \cup {Head(q)})

C19_LinkedInFirstStart ==
    reqs["linkedin"] # <<>>
    => reqs["linkedin"][1] = (offset \div jobs_per_page) * jobs_per_page

\* C20: in LinkedIn.scrape each request after the first asks for the
\* start of the previous request plus the number of cards of the previous
\* page, new or not: the requested starts strictly increase.
C20_LinkedInStartAdvance ==
    \A i \in 1..(Len(reqs["linkedin"]) - 1) :
        /\ reqs["linkedin"][i + 1] =
              reqs["linkedin"][i] + Len(PageAt(reqs["linkedin"][i]))
        /\ reqs["linkedin"][i + 1] > reqs["linkedin"][i]

\* a run of three requests or more, one of them past a page whose cards
\* were not all new
C20_Witness ==
    /\ Len(reqs["linkedin"]) >= 3
    /\ \E i \in 1..(Len(reqs["linkedin"]) - 1) :
          added["linkedin"][i] < Len(PageAt(reqs["linkedin"][i]))

\* the records the source delivered in this run of connector s, page by
\* page in request order
Delivered(s) ==
    Concat([i \in 1..Len(reqs[s]) |->
              IF outcomes[s][i] = "ok" THEN FetchedPage(s, i) ELSE <<>>])

\* the source-native keys of a list of records
Keys(jobs) == [j \in 1..Len(jobs) |-> jobs[j].id[2]]

IsPrefix(a, b) == Len(a) <= Len(b) /\ SubSeq(b, 1, Len(a)) = a

RECURSIVE IsSubseq(_, _)
IsSubseq(a, b) ==
    IF a = <<>> THEN TRUE
    ELSE IF b = <<>> THEN FALSE
    ELSE IF Head(a) = Head(b) THEN IsSubseq(Tail(a), Tail(b))
    ELSE IsSubseq(a, Tail(b))

\* C21: a connector keeps the order of the source: its accumulated
\* records are first occurrences of delivered records in delivery order
\* (from the first on, on the first run of an instance), and the list it
\* returns is an unbroken stretch of them.
C21_SourceOrderKept ==
    \A s \in Sites :
        /\ IsSubseq(Keys(job_list[s]), Dedup(Delivered(s), {}))
        /\ (Len(past[s]) = 0 \/ (Len(past[s]) = 1 /\ pc[s] \in {"done", "raised"}))
           => IsPrefix(Keys(job_list[s]), Dedup(Delivered(s), {}))
        /\ pc[s] = "done"
           => \E a \in 0..Len(job_list[s]) :
                 result[s] = Slice(job_list[s], a, a + Len(result[s]))

\* a run returned two records from two pages of a source that had
\* repeated the first of them
C21_Witness ==
    \E s \in Sites :
        /\ pc[s] = "done"
        /\ Len(reqs[s]) >= 2
        /\ Len(result[s]) >= 2
        /\ Len(Dedup(Delivered(s), {})) < Len(Delivered(s))
        /\ \E k \in 1..Len(FetchedPage(s, 1)) : FetchedPage(s, 1)[k] = result[s][1].id[2]
        /\ \A k \in 1..Len(FetchedPage(s, 1)) : FetchedPage(s, 1)[k] # result[s][2].id[2]

\* the salary record get_compensation reads: the base salary, else the
\* base salary of the estimate
SalaryOf(c) ==
    IF Has(c, "baseSalary") THEN c.baseSalary
    ELSE IF Has(c, "estimated") /\ "baseSalary" \in DOMAIN c.estimated
         THEN c.estimated.baseSalary
         ELSE <<>>

\* the unit of work names a canonical interval
Recognized(comp) ==
    /\ "unitOfWork" \in DOMAIN comp
    /\ interval_mapping(Upper(comp.unitOfWork)) \in CompensationIntervalMembers

\* C30: get_compensation returns none when neither a base nor an estimated
\* salary is present and when the unit of work is missing or not
\* recognized; otherwise a compensation with the canonical interval of the
\* unit and the min and max of the range.
C30_StructuredCompensation ==
    call = "get_compensation"
    => LET comp == SalaryOf(arg.in)
       IN  IF DOMAIN comp = {} \/ ~Recognized(comp)
           THEN ret.type = "NoneType"
           ELSE /\ ret.type = "Compensation"
                /\ ret.interval = interval_mapping(Upper(comp.unitOfWork))
                /\ ret.min_amount = RangeValue(comp, "min")
                /\ ret.max_amount = RangeValue(comp, "max")

\* C23: a salary label 'X-Y Lacs' or 'X-Y Lakh' gives min X * 100000 and
\* max Y * 100000 in INR, and 'X-Y Cr' gives X * 10000000 and Y * 10000000;
\* '12-16 Lacs P.A.' gives 1200000 and 1600000.
C23_LakhsAndCrores ==
    ( /\ call = "Naukri._get_compensation"
      /\ Len(arg.in) = 1
      /\ arg.in[1].type = "salary"
      /\ SalaryMatch(arg.in[1].label) )
    => LET label == arg.in[1].label
           factor == IF SalaryUnit(label[4]) = "cr" THEN Crore ELSE Lakh
       IN  /\ ret.type = "Compensation"
           /\ ret.min_amount = Tenths[label[1]] * (factor \div 10)
           /\ ret.max_amount = Tenths[label[3]] * (factor \div 10)
           /\ ret.currency = "INR"
           /\ label = <<"12", "-", "16", "Lacs", "P.A.">>
              => ret.min_amount = 1200000 /\ ret.max_amount = 1600000

\* a label that says today, just now or a few hours
TodayStyle(label) ==
    \E i \in 1..Len(label) : Lower(label)[i] \in {"today", "now", "hours"}

\* a label of the form 'N day(s) ago'
DaysAgoStyle(label) ==
    /\ Len(label) = 3
    /\ label[1] \in DOMAIN DayCounts
    /\ Lower(label)[2] \in {"day", "days"}
    /\ Lower(label)[3] = "ago"

\* C26: for a label that is not empty, not today-style and not of the form
\* 'N day(s) ago', Naukri._parse_date with a creation timestamp returns
\* the date of the timestamp.
C26_DateFallsBackToTimestamp ==
    ( /\ call = "Naukri._parse_date"
      /\ arg.in.label # <<>>
      /\ ~TodayStyle(arg.in.label)
      /\ ~DaysAgoStyle(arg.in.label)
      /\ arg.in.created_date \notin {None, 0} )
    => ret = DateOfTimestamp(arg.in.created_date)

\* the location the segments of a text stand for, read by position
Positional(parts, default) ==
    Location(parts[1],
             IF Len(parts) >= 2 THEN parts[2] ELSE "None",
             IF Len(parts) = 3 THEN from_string(parts[3]) ELSE default)

\* C29: a location text of 1, 2 or 3 segments gives city, then city and
\* state, then city, state and country; the fields of absent segments are
\* unset, the country being the connector's default, and no segment is lost.
C29_LocationPositional ==
    /\ ( call = "LinkedIn._get_location" /\ Len(arg.in) \in 1..3 )
        => ret = Positional(arg.in, "WORLDWIDE")
    /\ ( /\ call = "Naukri._get_location"
          /\ Len(arg.in) = 2
          /\ arg.in[2].type = "location"
          /\ Len(arg.in[2].label) \in 1..3 )
        => ret = Positional(arg.in[2].label, "INDIA")

\* the amount a text of digits, separators and decimals stands for
AmountValue == ("200,000.00" :> 200000) @@ ("300,000.00" :> 300000)

\* the description starts with 'Pay: Rs A - Rs B per year'
PayPerYear(text) ==
    /\ Len(text) >= 8
    /\ text[3] \in DOMAIN AmountValue /\ text[6] \in DOMAIN AmountValue
    /\ SubSeq(text, 1, 8) = <<"Pay:", "Rs", text[3], "-", "Rs", text[6], "per", "year">>

\* C24: for a description with 'Pay: Rs A - Rs B per year' the free-text
\* fallback yields a structured compensation: numeric min A, numeric max B,
\* interval yearly.
C24_PayLineStructured ==
    ( call = "extract_indian_salary" /\ PayPerYear(arg.in) )
    => /\ ret.type = "Compensation"
       /\ ret.min_amount = AmountValue[arg.in[3]]
       /\ ret.max_amount = AmountValue[arg.in[6]]
       /\ ret.interval = "yearly"

\* the outputs of the four rules in the order (a) Pay, (b) X-Y LPA,
\* (c) single LPA, (d) CTC
RuleOutputs(text) ==
    <<pay_pattern(text), lpa_pattern(text), single_lpa(text), ctc_pattern(text)>>

\* the rules that match a text
Matching(text) == {k \in 1..4 : RuleOutputs(text)[k].type = "str"}

\* C25: the result of the free-text fallback is the output of the earliest
\* of the rules (a), (b), (c), (d) that matches the text, and None when no
\* rule matches.
C25_FirstRuleWins ==
    call = "extract_indian_salary"
    => IF Matching(arg.in) = {}
       THEN ret = [type |-> "NoneType"]
       ELSE ret = RuleOutputs(arg.in)[First(Matching(arg.in))]

\* a text matched by several rules whose outputs differ got the output of
\* the earliest
C25_Witness ==
    /\ call = "extract_indian_salary"
    /\ \E j, k \in Matching(arg.in) :
          /\ j < k
          /\ j = First(Matching(arg.in))
          /\ RuleOutputs(arg.in)[j] # RuleOutputs(arg.in)[k]
          /\ ret = RuleOutputs(arg.in)[j]

\* the record carries a structured amount
Structured(doc) == doc.min_amount # None \/ doc.max_amount # None

\* C22: for a record with a structured amount (min_amount, max_amount or
\* both) the emitted salary does not depend on the description: it is the
\* salary of the same record without description text.
C22_FallbackLeavesStructured ==
    ( call = "transform_jobspy_to_schema" /\ Structured(arg.in) )
    => ret.salary_range = salary_range([arg.in EXCEPT !.description = <<>>])

\* C27: a record without date (no date and no usable timestamp on a
\* job-board row, no parseable date on an employer record) is emitted
\* without posted date.
C27_NoDateNoPostedAt ==
    /\ ( /\ call = "transform_jobspy_to_schema"
          /\ arg.in.date_posted \in {[type |-> "NoneType"], [type |-> "int", v |-> 0]} )
        => ret.posted_at = None
    /\ ( /\ call = "transform_company_to_schema"
          /\ arg.in.posted_at \notin DOMAIN strptime )
        => ret.posted_at = None

\* C28: the emitted title and company_name are never null.
C28_TitleAndCompanySet ==
    call \in {"transform_jobspy_to_schema", "transform_company_to_schema"}
    => ret.title # "None" /\ ret.company_name # "None"

\* C31: a record without structured amount, of a board or of an employer,
\* is emitted with the salary_range the free-text fallback gives for its
\* description.
C31_FallbackOnEveryRecord ==
    /\ ( /\ call = "transform_jobspy_to_schema"
          /\ arg.in.min_amount = None /\ arg.in.max_amount = None )
        => ret.salary_range = extract_indian_salary(arg.in.description)
    /\ ( /\ call = "transform_company_to_schema"
          /\ arg.in.salary_range = [type |-> "NoneType"] )
        => ret.salary_range = extract_indian_salary(arg.in.description)

\* the block the future of company c gave the accumulator
Block(c) == IF emp_outcome[c] = "raise" THEN <<>> ELSE emp_jobs[c]

\* the accumulator is the blocks of the futures taken so far, whole and in
\* the order they were taken, each future taken once
BlocksInOrder ==
    /\ all_jobs = Concat([i \in 1..Len(merged) |-> Block(merged[i])])
    /\ \A i, j \in 1..Len(merged) : merged[i] = merged[j] => i = j
    /\ fanPc = "returned" =>
          /\ {merged[i] : i \in 1..Len(merged)} = Companies
          /\ company_jobs = all_jobs

\* a step that changes the accumulator is the orchestrating thread taking
\* a returned future and appending its list
OrchestratorAppends ==
    all_jobs' # all_jobs =>
        \E c \in Companies :
            /\ futures[c] = "returned"
            /\ futures'[c] = "merged"
            /\ all_jobs' = all_jobs \o emp_jobs[c]

\* C32: in scrape_all_company_careers no worker task changes the
\* accumulator; the orchestrating thread appends the list of each task
\* once, as one block, a task that raised adds nothing and the lists of
\* the other tasks are all merged.
C32_FanOutMerge == []BlocksInOrder /\ [][OrchestratorAppends]_vars

\* the call returned although one task raised, with the blocks of two other
\* companies merged in an order other than that of submission
C32_Witness ==
    /\ fanPc = "returned"
    /\ \E c \in Companies : emp_outcome[c] = "raise"
    /\ \E i, j \in 1..6 :
          /\ i < j
          /\ Block(scrapers[i]) # <<>> /\ Block(scrapers[j]) # <<>>
          /\ \E m, n \in 1..Len(merged) :
                m > n /\ merged[m] = scrapers[i] /\ merged[n] = scrapers[j]

\* the page fetches of the running or last scrape() stay within the bound
\* of the connector
FetchBound ==
    /\ Len(reqs["indeed"]) <= results_wanted + offset
    /\ Len(reqs["linkedin"]) <= MaxStart
    /\ Len(reqs["naukri"]) <= MaxPage

\* C33: a scrape() of a board connector ends, whatever the source serves:
\* Indeed after at most results_wanted + offset page fetches, LinkedIn
\* after at most 1000, Naukri after at most 50. Each step that stays in
\* the loop is one more fetch, so the bound on the fetches ends the loop.
C33_ScrapeTerminates ==
    /\ []FetchBound
    /\ [][\A s \in Sites : (pc[s] = "loop" /\ pc'[s] = "loop")
                              => Len(reqs'[s]) = Len(reqs[s]) + 1]_vars

\* a scrape() ended after as many fetches as its bound allows: Indeed with
\* two or more, Naukri with all fifty
C33_Witness ==
    \/ /\ pc["indeed"] = "done"
       /\ results_wanted + offset >= 2
       /\ Len(reqs["indeed"]) = results_wanted + offset
    \/ /\ pc["naukri"] = "done"
       /\ Len(reqs["naukri"]) = MaxPage

\* C34: every scrape() of a board connector returns at most results_wanted
\* records, on the early returns too: the accumulators of LinkedIn.scrape
\* and Naukri.scrape never hold more than results_wanted records.
C34_QuotaOnEveryExit ==
    /\ \A s \in Sites :
          /\ Len(result[s]) <= results_wanted
          /\ \A i \in 1..Len(past[s]) : Len(past[s][i].jobs) <= results_wanted
    /\ Len(job_list["linkedin"]) <= results_wanted
    /\ Len(job_list["naukri"]) <= results_wanted

\* LinkedIn.scrape or Naukri.scrape returned its accumulator uncut, with a
\* record in it, after a request that failed
C34_Witness ==
    \E s \in {"linkedin", "naukri"} :
        /\ pc[s] = "done"
        /\ outcomes[s] # <<>>
        /\ outcomes[s][Len(outcomes[s])] # "ok"
        /\ result[s] # <<>>
        /\ result[s] = job_list[s]

\* the runs of run_scraper that are executing
Executing == {r \in Triggers : runs[r] = "running"}

\* C35: at most one run of run_scraper executes at any time, and no
\* trigger is accepted while a run is pending or executing.
C35_OneRunAtATime ==
    /\ Cardinality(Executing) <= 1
    /\ Cardinality({r \in Triggers : runs[r] \in {"pending", "running"}}) <= 1

\* C36: scraping_status["is_running"] is true exactly while a run of
\* run_scraper executes.
C36_RunningFlagExact == is_running <=> Executing # {}

====
